---- MODULE Spec2Model ----
(***************************************************************************)
(* A model of antsampler/antsampler.py: the Ant (position, max_logP; mark, *)
(* n_marks, move) and the AntSampler (ant_hill, points, marked_points;     *)
(* initialise, run).                                                       *)
(*                                                                         *)
(* Numbers.  Coordinates are integers (a grid in place of the floats).     *)
(* np.random.uniform() in [0,1) is u/UDen for u in 0..UDen-1.  A log       *)
(* probability is an integer in units of ln 2, so that np.exp(a - b) is    *)
(* 2^(a-b); -np.inf is NegInf, below every value log_probability returns.  *)
(* log_density names the callable the sampler was given: "ramp" grows with *)
(* the first coordinate, "flat" is the same everywhere.                    *)
(* rand_walker() draws any displacement with coordinates in                *)
(* -MaxStep..MaxStep.                                                      *)
(*                                                                         *)
(* Control.  run is one sequential call; it is cut at each call it makes   *)
(* (move, mark, initialise, points.append) and at each iteration of move's *)
(* retry loop.  pc is run's position, rnd/ant/k are its loop counters, and *)
(* in_move, old_marks, new_position, flag are the frame of the move call   *)
(* in progress; drawn is <<u>> when the last iteration of its loop took a  *)
(* uniform draw u, and <<>> when it took none.                             *)
(*                                                                         *)
(* History.  explored counts the move and mark calls the exploration of    *)
(* the run in progress has made, and keeps len(marked_points) as it was    *)
(* when run was called; the program reads none of it.                      *)
(***************************************************************************)
EXTENDS Integers, Sequences, FiniteSets, TLC

VARIABLES log_density, bounds, dx, n_steps_exp, n_draws, n_ants, thinning,
          ant_hill, points, marked_points,
          pc, rnd, ant, k,
          in_move, old_marks, new_position, flag, drawn,
          calls, explored

config == <<log_density, bounds, dx, n_steps_exp, n_draws, n_ants, thinning>>
control == <<pc, rnd, ant, k>>
frame == <<in_move, old_marks, new_position, flag, drawn>>
vars == <<config, ant_hill, points, marked_points, control, frame, calls, explored>>

-----------------------------------------------------------------------------
(* Bounds of the model *)

\* run and initialise calls made on one sampler
MaxCalls == 3
\* the upper bound of the first dimension: bounds = [[0, Hi], [0, 2]]
Hi == 4
\* uniform draws are u/UDen, u in 0..UDen-1
UDen == 2
\* largest coordinate of a displacement
MaxStep == 1
\* n_ants ranges over 1..MaxAnts
MaxAnts == 2

\* Python's None (Ant.__init__ leaves position = None)
None == <<>>
\* -np.inf, the max_logP of a new Ant
NegInf == -1

-----------------------------------------------------------------------------
(* Configurations *)

Box == <<<<0, Hi>>, <<0, 2>>>>

\* the log probabilities a sampler is given
LogDensities == {"ramp", "flat"}

\* the configurations explored: either log probability, n_steps_exp // n_ants
\* = 2 rounds with a remainder for two ants and 3 rounds for one, n_draws //
\* n_ants = 3 cycles for one ant and 1 cycle with a remainder for two,
\* thinning 2 for one ant and 1 for more
Configs ==
    { [log_density |-> f, bounds |-> Box, dx |-> <<2, 1>>,
       n_steps_exp |-> 2 * n + 1, n_draws |-> 3, n_ants |-> n,
       thinning |-> IF n = 1 THEN 2 ELSE 1] :
         n \in 1..MaxAnts, f \in LogDensities }

\* configurations AntSampler.__init__ takes as well, since it tests nothing:
\* no ants; min = max; min > max; dx and thinning of 0
BadConfigs ==
    { [log_density |-> "ramp", bounds |-> Box, dx |-> <<1, 1>>, n_steps_exp |-> 3,
       n_draws |-> 3, n_ants |-> 0, thinning |-> 1],
      [log_density |-> "ramp", bounds |-> <<<<0, Hi>>, <<1, 1>>>>, dx |-> <<1, 1>>,
       n_steps_exp |-> 3,
       n_draws |-> 3, n_ants |-> 1, thinning |-> 1],
      [log_density |-> "ramp", bounds |-> <<<<Hi, 0>>, <<0, 2>>>>, dx |-> <<1, 1>>,
       n_steps_exp |-> 3,
       n_draws |-> 3, n_ants |-> 1, thinning |-> 1],
      [log_density |-> "ramp", bounds |-> Box, dx |-> <<0, 1>>, n_steps_exp |-> 3,
       n_draws |-> 2, n_ants |-> 1, thinning |-> 0] }

-----------------------------------------------------------------------------
(* The random sources *)

\* np.random.uniform(): u stands for u/UDen
Uniform == 0..(UDen - 1)

\* np.random.uniform(low, high) of one coordinate: low + (high - low) * U[0,1)
uniform(low, high) ==
    IF low < high THEN low..(high - 1)
    ELSE IF low = high THEN {low}
    ELSE (high + 1)..low

\* np.random.uniform(low = bounds[:, 0], high = bounds[:, 1])
uniform_box ==
    { x \in [1..Len(bounds) -> (0 - Hi)..(2 * Hi)] :
        \A i \in 1..Len(bounds) : x[i] \in uniform(bounds[i][1], bounds[i][2]) }

\* rand_walker(): one displacement
rand_walker == [1..Len(dx) -> (0 - MaxStep)..MaxStep]

-----------------------------------------------------------------------------
(* Ant *)

\* the log probability explored, in units of ln 2
log_probability(x) == IF log_density = "flat" THEN 0 ELSE x[1]

Ant == [position |-> None, max_logP |-> NegInf]

\* initialise_ant resetting the running maximum as well
initialise_ant_reset(self, x) == [position |-> x, max_logP |-> NegInf]

initialise_ant(self, x) == [self EXCEPT !.position = x]

RECURSIVE prod(_)
prod(s) == IF s = <<>> THEN 1 ELSE Head(s) * prod(Tail(s))

int(b) == IF b THEN 1 ELSE 0

\* the window count with <= in place of <
n_marks_closed(position, marked) ==
    LET lo == [i \in 1..Len(dx) |-> position[i] - dx[i]]
        hi == [i \in 1..Len(dx) |-> position[i] + dx[i]]
        above(m) == prod([i \in 1..Len(dx) |-> int(lo[i] <= m[i])])
        below(m) == prod([i \in 1..Len(dx) |-> int(m[i] <= hi[i])])
    IN  IF Len(marked) > 0
        THEN Cardinality({r \in 1..Len(marked) :
                              above(marked[r]) * below(marked[r]) # 0})
        ELSE 0

n_marks(position, marked) ==
    LET lo == [i \in 1..Len(dx) |-> position[i] - dx[i]]
        hi == [i \in 1..Len(dx) |-> position[i] + dx[i]]
        above(m) == prod([i \in 1..Len(dx) |-> int(lo[i] < m[i])])
        below(m) == prod([i \in 1..Len(dx) |-> int(m[i] < hi[i])])
    IN  IF Len(marked) > 0
        THEN Cardinality({r \in 1..Len(marked) :
                              above(marked[r]) * below(marked[r]) # 0})
        ELSE 0

\* the bounds test with <= in place of <
in_bounds_closed(x) ==
    prod([i \in 1..Len(bounds) |->
              int(bounds[i][1] <= x[i] /\ x[i] <= bounds[i][2])]) # 0

in_bounds(x) ==
    prod([i \in 1..Len(bounds) |->
              int(bounds[i][1] < x[i] /\ x[i] < bounds[i][2])]) # 0

\* new_marks == 0 or old_marks/new_marks > np.random.uniform(): `or` evaluates
\* its right operand, the division and the draw, only when the left one is false
ratio_evaluated(new) == ~(new = 0)

\* the test with >= in place of >
accept_geq(old, new, u) == new = 0 \/ old * UDen >= u * new

\* the test with the ratio upside down: new_marks/old_marks > u
accept_inverse_ratio(old, new, u) == new = 0 \/ new * UDen > u * old

\* the value of the test; old/new > u/UDen is old * UDen > u * new
accept(old, new, u) == new = 0 \/ old * UDen > u * new

RECURSIVE pow2(_)
pow2(d) == IF d = 0 THEN 1 ELSE 2 * pow2(d - 1)

\* logP > self.max_logP  =>  self.max_logP = logP
raised_max(logP, max_logP) == IF logP > max_logP THEN logP ELSE max_logP

\* the test without the complement: np.exp(logP - max_logP) > u
deposit_no_complement(logP, max_logP, u) ==
    IF max_logP = NegInf \/ logP = NegInf THEN FALSE
    ELSE UDen > u * pow2(max_logP - logP)

\* the test with >= in place of >
deposit_geq(logP, max_logP, u) ==
    IF max_logP = NegInf THEN FALSE
    ELSE IF logP = NegInf THEN TRUE
    ELSE (pow2(max_logP - logP) - 1) * UDen >= u * pow2(max_logP - logP)

\* 1 - np.exp(logP - max_logP) > np.random.uniform(), with logP <= max_logP:
\* -inf - -inf is nan, and a comparison with nan is False; np.exp(-inf) is 0
deposit(logP, max_logP, u) ==
    IF max_logP = NegInf THEN FALSE
    ELSE IF logP = NegInf THEN TRUE
    ELSE (pow2(max_logP - logP) - 1) * UDen > u * pow2(max_logP - logP)

plus(x, d) == [i \in 1..Len(x) |-> x[i] + d[i]]

-----------------------------------------------------------------------------
(* run's control flow *)

At(p, r, a, j) == [pc |-> p, rnd |-> r, ant |-> a, k |-> j]
Idle(p) == At(p, 0, 0, 0)

Goto(c) == pc' = c.pc /\ rnd' = c.rnd /\ ant' = c.ant /\ k' = c.k

IdlePcs == {"constructed", "initialised", "returned", "raised"}
MovePcs == {"explore_move", "therm_move", "sample_move"}

\* range(self.n_draws//self.n_ants); n_ants = 0 raises ZeroDivisionError
enter_sampling ==
    IF n_ants = 0 THEN Idle("raised")
    ELSE IF n_draws \div n_ants <= 0 THEN Idle("returned")
    ELSE IF thinning > 0 THEN At("sample_move", 0, 1, 0)
    ELSE At("append", 0, 1, 0)

enter_thermalize ==
    IF n_ants = 0 \/ thinning <= 0 THEN enter_sampling
    ELSE At("therm_move", 0, 1, 0)

\* range(self.n_steps_exp//self.n_ants)
enter_explore ==
    IF n_ants = 0 THEN Idle("raised")
    ELSE IF n_steps_exp \div n_ants <= 0 THEN Idle("reinit")
    ELSE At("explore_move", 0, 1, 0)

\* the end of the exploration going to the thermalization at once
after_mark_skips_initialise ==
    IF ant < n_ants THEN At("explore_move", rnd, ant + 1, 0)
    ELSE IF rnd + 1 < n_steps_exp \div n_ants THEN At("explore_move", rnd + 1, 1, 0)
    ELSE enter_thermalize

\* the exploration counting n_steps_exp rounds, not n_steps_exp//n_ants
after_mark_n_steps_rounds ==
    IF ant < n_ants THEN At("explore_move", rnd, ant + 1, 0)
    ELSE IF rnd + 1 < n_steps_exp THEN At("explore_move", rnd + 1, 1, 0)
    ELSE Idle("reinit")

after_mark ==
    IF ant < n_ants THEN At("explore_move", rnd, ant + 1, 0)
    ELSE IF rnd + 1 < n_steps_exp \div n_ants THEN At("explore_move", rnd + 1, 1, 0)
    ELSE Idle("reinit")

\* the loops over range(self.thinning) making one move more
after_move_one_more ==
    CASE pc = "explore_move" -> At("explore_mark", rnd, ant, 0)
      [] pc = "therm_move" ->
            IF k + 1 <= thinning THEN At("therm_move", 0, ant, k + 1)
            ELSE IF ant < n_ants THEN At("therm_move", 0, ant + 1, 0)
            ELSE enter_sampling
      [] pc = "sample_move" ->
            IF k + 1 <= thinning THEN At("sample_move", rnd, ant, k + 1)
            ELSE At("append", rnd, ant, 0)

after_move ==
    CASE pc = "explore_move" -> At("explore_mark", rnd, ant, 0)
      [] pc = "therm_move" ->
            IF k + 1 < thinning THEN At("therm_move", 0, ant, k + 1)
            ELSE IF ant < n_ants THEN At("therm_move", 0, ant + 1, 0)
            ELSE enter_sampling
      [] pc = "sample_move" ->
            IF k + 1 < thinning THEN At("sample_move", rnd, ant, k + 1)
            ELSE At("append", rnd, ant, 0)

after_append ==
    LET next == IF thinning > 0 THEN "sample_move" ELSE "append"
    IN  IF ant < n_ants THEN At(next, rnd, ant + 1, 0)
        ELSE IF rnd + 1 < n_draws \div n_ants THEN At(next, rnd + 1, 1, 0)
        ELSE Idle("returned")

-----------------------------------------------------------------------------
(* AntSampler *)

\* the history of an exploration: nothing called, marks at the call
Explored(before) == [moves |-> 0, marks |-> 0, before |-> before]

Construct(c) ==
    /\ log_density = c.log_density
    /\ bounds = c.bounds /\ dx = c.dx
    /\ n_steps_exp = c.n_steps_exp /\ n_draws = c.n_draws
    /\ n_ants = c.n_ants /\ thinning = c.thinning
    /\ ant_hill = [a \in 1..c.n_ants |-> Ant]
    /\ points = <<>>
    /\ marked_points = <<>>
    /\ pc = "constructed" /\ rnd = 0 /\ ant = 0 /\ k = 0
    /\ in_move = FALSE /\ old_marks = 0 /\ new_position = None /\ flag = FALSE
    /\ drawn = <<>>
    /\ calls = 0
    /\ explored = Explored(0)

Init == \E c \in Configs : Construct(c)

InitAnyConfig == \E c \in Configs \cup BadConfigs : Construct(c)

\* initialise without the test of clear_marks
initialise_never_clears(clear_marks, xs) ==
    /\ ant_hill' = [a \in 1..Len(ant_hill) |-> initialise_ant(ant_hill[a], xs[a])]
    /\ points' = <<>>
    /\ marked_points' = marked_points

\* initialise without self.points = []
initialise_keeps_points(clear_marks, xs) ==
    /\ ant_hill' = [a \in 1..Len(ant_hill) |-> initialise_ant(ant_hill[a], xs[a])]
    /\ points' = points
    /\ marked_points' = IF clear_marks THEN <<>> ELSE marked_points

\* AntSampler.initialise: xs[a] is the position drawn for ant a
initialise(clear_marks, xs) ==
    /\ ant_hill' = [a \in 1..Len(ant_hill) |-> initialise_ant(ant_hill[a], xs[a])]
    /\ points' = <<>>
    /\ marked_points' = IF clear_marks THEN <<>> ELSE marked_points

CallInitialise(clear_marks) ==
    /\ pc \in IdlePcs /\ calls < MaxCalls
    /\ \E xs \in [1..Len(ant_hill) -> uniform_box] : initialise(clear_marks, xs)
    /\ Goto(Idle("initialised"))
    /\ calls' = calls + 1
    /\ explored' = Explored(0)
    /\ UNCHANGED <<config, frame>>

CallRun(explore) ==
    /\ pc \in IdlePcs /\ calls < MaxCalls
    /\ Goto(IF explore THEN enter_explore ELSE Idle("reinit"))
    /\ calls' = calls + 1
    /\ explored' = Explored(Len(marked_points))
    /\ UNCHANGED <<config, ant_hill, points, marked_points, frame>>

\* ant.move: old_marks = self.n_marks(self.position, marked_points); None - dx
\* raises TypeError, which leaves run
MoveBegin ==
    /\ pc \in MovePcs /\ ~in_move
    /\ IF ant_hill[ant].position = None
       THEN /\ Goto(Idle("raised"))
            /\ UNCHANGED frame
       ELSE /\ in_move' = TRUE
            /\ old_marks' = n_marks(ant_hill[ant].position, marked_points)
            /\ flag' = TRUE
            /\ UNCHANGED <<control, new_position, drawn>>
    /\ UNCHANGED <<config, ant_hill, points, marked_points, calls, explored>>

\* one iteration of while flag, with the displacement d drawn and, where the
\* ratio is evaluated, the uniform u; old_marks/0 raises ZeroDivisionError,
\* which leaves run.  A rejected candidate is never read again (the next
\* iteration assigns new_position first), so the frame keeps the candidate and
\* the draw of the accepting iteration only.
MoveTry(d, u) ==
    /\ in_move /\ flag
    /\ LET x == plus(ant_hill[ant].position, d)
           new_marks == IF in_bounds(x) THEN n_marks(x, marked_points) ELSE 0
           divides == in_bounds(x) /\ ratio_evaluated(new_marks)
           accepted == in_bounds(x) /\ accept(old_marks, new_marks, u)
       IN  IF divides /\ new_marks = 0
           THEN /\ Goto(Idle("raised"))
                /\ in_move' = FALSE /\ old_marks' = 0 /\ new_position' = None
                /\ flag' = FALSE /\ drawn' = <<>>
           ELSE /\ flag' = ~accepted
                /\ new_position' = IF accepted THEN x ELSE None
                /\ drawn' = IF accepted /\ divides THEN <<u>> ELSE <<>>
                /\ UNCHANGED <<control, in_move, old_marks>>
    /\ UNCHANGED <<config, ant_hill, points, marked_points, calls, explored>>

\* move updating the position array in place (self.position += ...): the
\* marks and points that are that array change with it
MoveEndInPlace ==
    /\ in_move /\ ~flag
    /\ ant_hill' = [ant_hill EXCEPT ![ant].position = new_position]
    /\ marked_points' = [r \in 1..Len(marked_points) |->
                            IF marked_points[r] = ant_hill[ant].position
                            THEN new_position ELSE marked_points[r]]
    /\ points' = [r \in 1..Len(points) |->
                     IF points[r] = ant_hill[ant].position
                     THEN new_position ELSE points[r]]
    /\ in_move' = FALSE /\ old_marks' = 0 /\ new_position' = None /\ flag' = FALSE
    /\ drawn' = <<>>
    /\ Goto(after_move)
    /\ explored' = IF pc = "explore_move"
                   THEN [explored EXCEPT !.moves = @ + 1]
                   ELSE explored
    /\ UNCHANGED <<config, calls>>

\* self.position = new_position, and move returns
MoveEnd ==
    /\ in_move /\ ~flag
    /\ ant_hill' = [ant_hill EXCEPT ![ant].position = new_position]
    /\ in_move' = FALSE /\ old_marks' = 0 /\ new_position' = None /\ flag' = FALSE
    /\ drawn' = <<>>
    /\ Goto(after_move)
    /\ explored' = IF pc = "explore_move"
                   THEN [explored EXCEPT !.moves = @ + 1]
                   ELSE explored
    /\ UNCHANGED <<config, points, marked_points, calls>>

\* ant.mark(self.marked_points), with the uniform u drawn
Mark(u) ==
    /\ pc = "explore_mark"
    /\ LET self == ant_hill[ant]
           logP == log_probability(self.position)
           m == raised_max(logP, self.max_logP)
       IN  /\ ant_hill' = [ant_hill EXCEPT ![ant].max_logP = m]
           /\ marked_points' = IF deposit(logP, m, u)
                               THEN Append(marked_points, self.position)
                               ELSE marked_points
    /\ Goto(after_mark)
    /\ explored' = [explored EXCEPT !.marks = @ + 1]
    /\ UNCHANGED <<config, points, frame, calls>>

\* run calling self.initialise(clear_marks=True)
ReinitClearing ==
    /\ pc = "reinit"
    /\ \E xs \in [1..Len(ant_hill) -> uniform_box] : initialise(TRUE, xs)
    /\ Goto(enter_thermalize)
    /\ explored' = Explored(0)
    /\ UNCHANGED <<config, frame, calls>>

\* self.initialise() inside run
Reinit ==
    /\ pc = "reinit"
    /\ \E xs \in [1..Len(ant_hill) -> uniform_box] : initialise(FALSE, xs)
    /\ Goto(enter_thermalize)
    /\ explored' = Explored(0)
    /\ UNCHANGED <<config, frame, calls>>

\* self.points.append(ant.position)
AppendPoint ==
    /\ pc = "append"
    /\ points' = Append(points, ant_hill[ant].position)
    /\ Goto(after_append)
    /\ UNCHANGED <<config, ant_hill, marked_points, frame, calls, explored>>

Next ==
    \/ \E clear_marks \in BOOLEAN : CallInitialise(clear_marks)
    \/ \E explore \in BOOLEAN : CallRun(explore)
    \/ MoveBegin
    \/ \E d \in rand_walker, u \in Uniform : MoveTry(d, u)
    \/ MoveEnd
    \/ \E u \in Uniform : Mark(u)
    \/ Reinit
    \/ AppendPoint

Spec == Init /\ [][Next]_vars

SpecAnyConfig == InitAnyConfig /\ [][Next]_vars

\* run is sequential code that keeps executing: each call it has reached is
\* made, and in move's loop every displacement rand_walker can draw is drawn
\* again and again, with a uniform draw that accepts it where there is one
Fairness ==
    /\ WF_vars(MoveBegin)
    /\ WF_vars(MoveEnd)
    /\ WF_vars(\E u \in Uniform : Mark(u))
    /\ WF_vars(Reinit)
    /\ WF_vars(AppendPoint)
    /\ \A d \in [1..Len(Box) -> (0 - MaxStep)..MaxStep] :
          WF_vars(\E u \in Uniform : MoveTry(d, u))

SpecFair == Init /\ [][Next]_vars /\ Fairness

-----------------------------------------------------------------------------
(* Properties *)

\* min_i < x_i < max_i in every dimension
StrictlyInside(x) ==
    /\ x # None
    /\ \A i \in 1..Len(bounds) : bounds[i][1] < x[i] /\ x[i] < bounds[i][2]

\* C1: every completed move call leaves the moved ant's position strictly
\* within the bounds in every dimension, whatever the marks and the draws; and
\* once the sampling phase is reached every ant has moved, so every ant is
\* strictly within the bounds.
C1_MoveKeepsInBounds ==
    [][ /\ MoveEnd => StrictlyInside(ant_hill'[ant].position)
        /\ pc' \in {"sample_move", "append", "returned"} =>
              \A a \in 1..Len(ant_hill) : StrictlyInside(ant_hill'[a].position) ]_vars

\* a move has just completed next to the upper bound, with marks laid
C1_Witness ==
    /\ pc = "explore_mark"
    /\ Len(marked_points) > 0
    /\ ant_hill[ant].position[1] = bounds[1][2] - 1

ExplorePcs == {"explore_move", "explore_mark"}
FrozenPcs == {"reinit", "therm_move", "sample_move", "append"}

\* C2: within a run the size of marked_points never decreases during the
\* exploration, and marked_points is left as it is by every step from the
\* reinitialisation to the return of run: by every step of a move, by the
\* reinitialisation and by every append to points.
C2_MarksGrowThenFrozen ==
    [][ /\ pc \in ExplorePcs => Len(marked_points') >= Len(marked_points)
        /\ pc \in FrozenPcs =>
              /\ Len(marked_points') = Len(marked_points)
              /\ marked_points' = marked_points
        /\ in_move \/ pc \in MovePcs => marked_points' = marked_points ]_vars

\* a run has returned with the marks of its exploration
C2_Witness == pc = "returned" /\ Len(marked_points) >= 2 /\ Len(points) > 0

\* C3: when run returns, points holds n_ants * (n_draws // n_ants) points,
\* whatever calls came before.
C3_SampleCount ==
    pc = "returned" => Len(points) = n_ants * (n_draws \div n_ants)

\* the last call allowed returns; more marks are laid than one exploration
\* lays, so an earlier run has returned; n_draws is no multiple of n_ants
C3_Witness ==
    /\ pc = "returned" /\ calls = MaxCalls
    /\ Len(marked_points) > n_steps_exp
    /\ n_draws % n_ants # 0
    /\ Len(points) > 0

\* the configuration the sampler holds
self_config ==
    [log_density |-> log_density,
     bounds |-> bounds, dx |-> dx, n_steps_exp |-> n_steps_exp,
     n_draws |-> n_draws, n_ants |-> n_ants, thinning |-> thinning]

\* C4: right after construction, before any initialise call, every ant holds
\* a position drawn in the bounds, so the first call, run with explore set,
\* makes its first move and does not raise.
C4_FreshAntsPlaced ==
    /\ pc = "constructed" =>
          \A a \in 1..Len(ant_hill) : ant_hill[a].position \in uniform_box
    /\ ~(calls = 1 /\ pc = "raised")

\* what section 6 of the specification asks of a configuration
ValidConfig(c) ==
    /\ \A i \in 1..Len(c.bounds) : c.bounds[i][1] < c.bounds[i][2]
    /\ \A i \in 1..Len(c.dx) : c.dx[i] > 0
    /\ c.n_steps_exp > 0 /\ c.n_draws > 0 /\ c.n_ants > 0 /\ c.thinning > 0

\* C5: a sampler is constructed only from a valid configuration (positive dx
\* and counts, min < max in every dimension), and no call on it ends in a
\* failure of the configuration.
C5_InvalidConfigRejected ==
    /\ ValidConfig(self_config)
    /\ ~(n_ants = 0 /\ pc = "raised")

\* the centers a window count is asked at: the box and one step around it
Centers ==
    { c \in [1..Len(dx) -> (0 - 1)..(Hi + 1)] :
        \A i \in 1..Len(dx) : bounds[i][1] - 1 <= c[i] /\ c[i] <= bounds[i][2] + 1 }

\* m lies strictly inside the window of half-width dx centered at c
InWindow(c, m) ==
    \A i \in 1..Len(dx) : c[i] - dx[i] < m[i] /\ m[i] < c[i] + dx[i]

\* the marks, counted with multiplicity, inside the window centered at c
WindowCount(c, marked) == Cardinality({r \in 1..Len(marked) : InWindow(c, marked[r])})

\* C6: at every center the window count is the number of marks, counted with
\* multiplicity, whose every coordinate is strictly inside the window; it is 0
\* when there are no marks and len(marked_points) when the window strictly
\* contains every mark; old_marks is that count at the position move was
\* called at.
C6_WindowCount ==
    /\ \A c \in Centers :
         /\ n_marks(c, marked_points) = WindowCount(c, marked_points)
         /\ marked_points = <<>> => n_marks(c, marked_points) = 0
         /\ (\A r \in 1..Len(marked_points) : InWindow(c, marked_points[r])) =>
               n_marks(c, marked_points) = Len(marked_points)
    /\ in_move => old_marks = WindowCount(ant_hill[ant].position, marked_points)

\* a center whose window holds some marks and not all of them: one mark lies
\* on the window's edge in the first dimension, and one is inside the window
\* in the first dimension and outside it in the second
C6_Witness ==
    \E c \in Centers :
        /\ 0 < n_marks(c, marked_points)
        /\ n_marks(c, marked_points) < Len(marked_points)
        /\ \E r \in 1..Len(marked_points) :
              /\ marked_points[r][1] = c[1] + dx[1]
              /\ c[2] - dx[2] < marked_points[r][2] /\ marked_points[r][2] < c[2] + dx[2]
        /\ \E r \in 1..Len(marked_points), c2 \in Centers :
              /\ c2[1] = c[1] /\ InWindow(c, marked_points[r])
              /\ ~InWindow(c2, marked_points[r])

\* C7: no step lowers the max_logP of an ant: no mark, move, initialise (with
\* or without clear_marks) or run, over any sequence of calls.
C7_MaxLogPMonotone ==
    [][\A a \in 1..Len(ant_hill) :
          ant_hill'[a].max_logP >= ant_hill[a].max_logP]_vars

\* an ant keeps a raised max_logP after initialise and into the next run
C7_Witness ==
    /\ pc = "explore_move" /\ calls = MaxCalls
    /\ \A a \in 1..Len(ant_hill) : ant_hill[a].max_logP > NegInf

\* what a call of initialise(clear_marks) does and leaves
InitialiseEffect(clear_marks) ==
    /\ \A a \in 1..Len(ant_hill) : ant_hill'[a].position \in uniform_box
    /\ points' = <<>>
    /\ clear_marks =>
          /\ marked_points' = <<>>
          /\ \A c \in Centers : n_marks(c, marked_points') = 0
    /\ ~clear_marks => marked_points' = marked_points
    /\ \A a \in 1..Len(ant_hill) : ant_hill'[a].max_logP = ant_hill[a].max_logP
    /\ Len(ant_hill') = Len(ant_hill)
    /\ UNCHANGED config

\* C8: initialise(clear_marks), called on the sampler or by run, redraws
\* every ant's position in the bounds and empties points; it empties
\* marked_points when clear_marks is set, after which every window count is 0,
\* and leaves marked_points as it is otherwise; it changes no max_logP and
\* nothing of the configuration.
C8_InitialiseFrame ==
    [][ /\ \A clear_marks \in BOOLEAN :
              CallInitialise(clear_marks) => InitialiseEffect(clear_marks)
        /\ Reinit => InitialiseEffect(FALSE) ]_vars

\* initialise has returned on a sampler that holds marks and a raised
\* max_logP, and has emptied the points of the run before it
C8_Witness ==
    /\ pc = "initialised"
    /\ points = <<>>
    /\ Len(marked_points) > 0
    /\ \E a \in 1..Len(ant_hill) : ant_hill[a].max_logP > NegInf

\* C10: an iteration of move's loop never divides by new_marks = 0; it accepts
\* its candidate only if the candidate is strictly within the bounds and
\* new_marks = 0 or old_marks/new_marks > u for the draw u taken for it, with
\* old_marks the window count at the position move was called at; the position
\* changes during a move only by installing the accepted candidate; and a
\* candidate within the bounds with new_marks = old_marks > 0 is accepted
\* whatever u is.
C10_AcceptanceRule ==
    /\ [][
          /\ (\E d \in rand_walker, u \in Uniform : MoveTry(d, u)) =>
                /\ pc' # "raised"
                /\ ~flag' =>
                      LET old == WindowCount(ant_hill[ant].position, marked_points)
                          new == WindowCount(new_position', marked_points)
                      IN  /\ StrictlyInside(new_position')
                          /\ \/ new = 0 /\ drawn' = <<>>
                             \/ /\ new # 0 /\ drawn' # <<>>
                                /\ old * UDen > drawn'[1] * new
          /\ (in_move /\ ant_hill' # ant_hill) =>
                /\ ~flag
                /\ ant_hill' = [ant_hill EXCEPT ![ant].position = new_position]
       ]_vars
    /\ [](in_move /\ flag =>
            \A d \in rand_walker, u \in Uniform :
               LET x == plus(ant_hill[ant].position, d)
                   old == WindowCount(ant_hill[ant].position, marked_points)
               IN  (StrictlyInside(x) /\ WindowCount(x, marked_points) = old /\ old > 0) =>
                     ENABLED (MoveTry(d, u) /\ ~flag' /\ new_position' = x))

\* a candidate with more marks in its window than the position held is
\* accepted on the ratio test
C10_Witness ==
    /\ in_move /\ ~flag
    /\ drawn # <<>>
    /\ 0 < old_marks
    /\ old_marks < n_marks(new_position, marked_points)

\* C11: a mark call with the draw u first raises the ant's max_logP to the log
\* probability at its position when that is larger, and then appends the
\* position to marked_points exactly when 1 - exp(logP - max_logP) > u for the
\* maximum as updated; it appends at most one point, leaves the marks it
\* found as they are, and changes no position and no other ant.
C11_MarkEffect ==
    [][\A u \in Uniform :
          Mark(u) =>
             LET self == ant_hill[ant]
                 logP == log_probability(self.position)
                 updated == ant_hill'[ant].max_logP
                 e == pow2(updated - logP)
             IN  /\ updated = IF logP > self.max_logP THEN logP ELSE self.max_logP
                 /\ updated >= logP
                 /\ marked_points' = IF (e - 1) * UDen > u * e
                                     THEN Append(marked_points, self.position)
                                     ELSE marked_points
                 /\ Len(marked_points') <= Len(marked_points) + 1
                 /\ SubSeq(marked_points', 1, Len(marked_points)) = marked_points
                 /\ \A a \in 1..Len(ant_hill) :
                       /\ ant_hill'[a].position = ant_hill[a].position
                       /\ a # ant => ant_hill'[a] = ant_hill[a]
                 /\ Len(ant_hill') = Len(ant_hill)]_vars

\* the last ant of the last round has just deposited its position, below the
\* maximum it had reached before, on top of a mark laid earlier
C11_Witness ==
    /\ pc = "reinit"
    /\ Len(marked_points) >= 2
    /\ marked_points[Len(marked_points)] = ant_hill[n_ants].position
    /\ log_probability(ant_hill[n_ants].position) < ant_hill[n_ants].max_logP

\* the phases of run in their order; 0 is no run in progress
Phase(p) ==
    CASE p \in ExplorePcs -> 1
      [] p = "reinit" -> 2
      [] p = "therm_move" -> 3
      [] p \in {"sample_move", "append"} -> 4
      [] p = "returned" -> 5
      [] OTHER -> 0

\* C12: a run that does not raise goes through its phases in order and never
\* back: exploration, the one reinitialisation, thermalization, sampling,
\* return.  The thermalization is entered only by the reinitialisation, which
\* redraws every position and is the only step of its phase; after it no step
\* of the run has the effect of a mark (no max_logP and no mark changes).  The
\* thermalization takes the ants in order, thinning moves each, and is left
\* only by the last move of the last ant, with points still empty; points
\* grows only in the sampling phase.
C12_PhaseOrder ==
    [][ /\ (pc \notin IdlePcs /\ pc' # "raised") => Phase(pc') >= Phase(pc)
        /\ (Phase(pc) < 3 /\ Phase(pc') >= 3) =>
              /\ pc = "reinit"
              /\ points' = <<>>
              /\ \A a \in 1..Len(ant_hill) : ant_hill'[a].position \in uniform_box
        /\ pc = "reinit" => pc' # "reinit"
        /\ pc \in FrozenPcs =>
              /\ marked_points' = marked_points
              /\ \A a \in 1..Len(ant_hill) :
                    ant_hill'[a].max_logP = ant_hill[a].max_logP
        /\ (pc # "therm_move" /\ pc' = "therm_move") => ant' = 1 /\ k' = 0
        /\ (pc = "therm_move" /\ pc' = "therm_move" /\ control' # control) =>
              /\ MoveEnd
              /\ \/ ant' = ant /\ k' = k + 1 /\ k' < thinning
                 \/ ant' = ant + 1 /\ k' = 0 /\ k = thinning - 1
        /\ (pc = "therm_move" /\ pc' \notin {"therm_move", "raised"}) =>
              /\ MoveEnd
              /\ ant = n_ants /\ k = thinning - 1
              /\ Phase(pc') = 4
              /\ points = <<>> /\ points' = <<>>
        /\ Len(points') > Len(points) => pc = "append" ]_vars

\* after an exploration that laid marks, the reinitialisation and the
\* thermalization of both ants, the first point is about to be appended
C12_Witness ==
    /\ pc = "append" /\ points = <<>>
    /\ n_ants = 2
    /\ Len(marked_points) > 0
    /\ \A a \in 1..Len(ant_hill) : ant_hill[a].max_logP > NegInf

\* floor(n_steps_exp / n_ants)
Rounds == n_steps_exp \div n_ants

\* C13: the exploration makes its calls in the order move, mark, ant by ant
\* and round by round: before the move of ant a in round r it has made
\* r * n_ants + a - 1 moves and as many marks, and before the mark of that ant
\* one move more; it ends having made n_ants * floor(n_steps_exp / n_ants)
\* marks, and a run without explore reaches the reinitialisation having made
\* none.  A mark is called only right after the move of the same ant has
\* returned, at the position that move installed, and it is the only step to
\* follow.  From the call of run to its reinitialisation marked_points grows
\* by no more entries than marks were called, so by no more than
\* n_ants * floor(n_steps_exp / n_ants).
C13_ExplorationRounds ==
    /\ [](pc = "explore_move" =>
             /\ rnd < Rounds /\ 1 <= ant /\ ant <= n_ants
             /\ explored.moves = rnd * n_ants + ant - 1
             /\ explored.marks = explored.moves)
    /\ [](pc = "explore_mark" =>
             /\ rnd < Rounds /\ 1 <= ant /\ ant <= n_ants
             /\ explored.marks = rnd * n_ants + ant - 1
             /\ explored.moves = explored.marks + 1
             /\ StrictlyInside(ant_hill[ant].position))
    /\ [](pc = "reinit" =>
             /\ explored.marks \in {0, n_ants * Rounds}
             /\ explored.moves = explored.marks)
    /\ [](pc \in ExplorePcs \cup {"reinit"} =>
             /\ Len(marked_points) >= explored.before
             /\ Len(marked_points) - explored.before <= explored.marks
             /\ Len(marked_points) - explored.before <= n_ants * Rounds)
    /\ [][ /\ (pc # "explore_mark" /\ pc' = "explore_mark") =>
                 /\ MoveEnd /\ pc = "explore_move"
                 /\ ant' = ant /\ rnd' = rnd
                 /\ ant_hill'[ant].position = new_position
           /\ pc = "explore_mark" => \E u \in Uniform : Mark(u)
           /\ (\E u \in Uniform : Mark(u)) =>
                 \/ marked_points' = marked_points
                 \/ marked_points' = Append(marked_points, ant_hill[ant].position)
           /\ CallRun(FALSE) => (pc' = "reinit" /\ explored'.marks = 0)
           /\ (pc \notin ExplorePcs /\ pc' \in ExplorePcs) =>
                 /\ CallRun(TRUE)
                 /\ pc' = "explore_move" /\ rnd' = 0 /\ ant' = 1 ]_vars

\* an exploration of two ants has ended, n_steps_exp being no multiple of
\* n_ants, and has laid marks on top of those it found
C13_Witness ==
    /\ pc = "reinit"
    /\ n_ants = 2 /\ n_steps_exp % n_ants # 0
    /\ explored.marks = n_ants * Rounds
    /\ explored.before > 0
    /\ Len(marked_points) > explored.before

SamplePcs == {"sample_move", "append"}

\* floor(n_draws / n_ants)
Cycles == n_draws \div n_ants

IsPrefix(s, t) == Len(s) <= Len(t) /\ SubSeq(t, 1, Len(s)) = s

\* C15: every step other than initialise with clear_marks set leaves
\* marked_points a prefix of what it becomes: no mark is removed, reordered
\* or altered.  A step of a move, the reinitialisation inside run and an
\* initialise call without clear_marks leave every mark as it is, though they
\* change the position of the ant that laid it; a step of a move leaves every
\* recorded point as it is, and points changes only by growing at its end or
\* by being emptied by initialise.
C15_AppendOnly ==
    [][ /\ \/ IsPrefix(marked_points, marked_points')
           \/ pc \in IdlePcs /\ pc' = "initialised" /\ marked_points' = <<>>
        /\ (in_move \/ pc \in MovePcs) =>
              (marked_points' = marked_points /\ points' = points)
        /\ pc = "reinit" => marked_points' = marked_points
        /\ CallInitialise(FALSE) => marked_points' = marked_points
        /\ \/ IsPrefix(points, points')
           \/ points' = <<>> /\ (pc = "reinit" \/ pc' = "initialised")
      ]_vars

\* the last call allowed has returned; marked_points holds more marks than
\* one exploration lays, so marks have outlived a reinitialisation and the
\* moves of two runs; no ant is where a mark or a point before the last is
C15_Witness ==
    /\ pc = "returned" /\ calls = MaxCalls
    /\ Len(marked_points) > n_ants * Rounds
    /\ Len(points) > 1
    /\ \A a \in 1..Len(ant_hill) :
          /\ \A r \in 1..Len(marked_points) : marked_points[r] # ant_hill[a].position
          /\ points[1] # ant_hill[a].position

StaticPcs == {"therm_move", "sample_move", "append"}

\* C17: an iteration of move's loop started with old_marks = 0 accepts only
\* a candidate with no mark in its window.  In the thermalization and the
\* sampling of a run, an ant with no mark in its window has none after every
\* step, so after each of its later moves, and the point an append records
\* for such an ant has no mark in its window.
C17_EmptyWindowAbsorbing ==
    [][ /\ (in_move /\ flag /\ ~flag' /\ old_marks = 0) =>
              /\ WindowCount(ant_hill[ant].position, marked_points) = 0
              /\ WindowCount(new_position', marked_points) = 0
        /\ pc \in StaticPcs =>
              /\ marked_points' = marked_points
              /\ \A a \in 1..Len(ant_hill) :
                    WindowCount(ant_hill[a].position, marked_points) = 0 =>
                       WindowCount(ant_hill'[a].position, marked_points') = 0
        /\ (AppendPoint
              /\ WindowCount(ant_hill[ant].position, marked_points) = 0) =>
              WindowCount(points'[Len(points')], marked_points') = 0 ]_vars

\* marks are laid, and the one ant, with none of them in its window at the
\* append of the cycle before, is at its next append with none in its window
C17_Witness ==
    /\ pc = "append" /\ rnd >= 1 /\ n_ants = 1
    /\ Len(marked_points) > 0
    /\ WindowCount(points[Len(points)], marked_points) = 0
    /\ WindowCount(ant_hill[ant].position, marked_points) = 0

\* C18: a mark call deposits nothing when the log probability at the ant's
\* position is at or above the max_logP the ant had before the call, whatever
\* the draw; under a log probability that is the same everywhere
\* marked_points is empty in every reachable state.
C18_NoDepositAtMaximum ==
    /\ [][\A u \in Uniform :
             (Mark(u) /\ log_probability(ant_hill[ant].position)
                            >= ant_hill[ant].max_logP) =>
                marked_points' = marked_points]_vars
    /\ [](log_density = "flat" => marked_points = <<>>)

\* under the flat log probability the exploration of the last call allowed
\* has ended, with every mark call made and every ant's max_logP raised
C18_Witness ==
    /\ log_density = "flat"
    /\ pc = "reinit" /\ calls = MaxCalls
    /\ explored.marks = n_ants * Rounds
    /\ \A a \in 1..Len(ant_hill) : ant_hill[a].max_logP = 0
    /\ marked_points = <<>>

\* C19: every initialise call, on the sampler or inside run, leaves every
\* ant strictly within the bounds in every dimension.
C19_InitialiseStrictlyInside ==
    [][(pc = "reinit" \/ pc' = "initialised") =>
          \A a \in 1..Len(ant_hill) : StrictlyInside(ant_hill'[a].position)]_vars

\* a move call in progress from a position strictly within the bounds
\* returns, under the fair draws
C16_MoveAccepts ==
    (in_move /\ StrictlyInside(ant_hill[ant].position)) ~> ~in_move

\* C16: under the fair draws a move call started strictly within the bounds
\* accepts a candidate and returns, and every run that is called ends.
C16_RunReturns ==
    /\ C16_MoveAccepts
    /\ (pc \notin IdlePcs) ~> (pc \in IdlePcs)

====
